---- MODULE Spec2Model ----
(***************************************************************************)
(* Audio to Guitar Tab converter: the React front end (App, FileUploader,  *)
(* ProcessedFilesList, TabPreview) and the tablature core it displays.     *)
(*                                                                         *)
(* Units.  Times are integers in milliseconds.  The zoom factor is kept in *)
(* tenths (zoom = 10 is the factor 1.0), so that 60 * zoom pixels is       *)
(* 6 * zoom here and every coordinate is an exact integer.  String indices *)
(* are the 0-based indices of the JavaScript arrays; TLA+ sequences are    *)
(* 1-based, so string index i is element i + 1.                            *)
(***************************************************************************)
EXTENDS Integers, Sequences, FiniteSets, TLC

(***************************************************************************)
(* Bounds of the model.                                                    *)
(***************************************************************************)
MaxChords == 2

MaxNotes == 2

(***************************************************************************)
(* JavaScript values.  A value that may or may not be an array is a record *)
(* with the flag isArray; Undefined stands for undefined / null.           *)
(***************************************************************************)
Arr(items) == [isArray |-> TRUE, items |-> items]

Undefined == [isArray |-> FALSE, items |-> <<>>]

Min(a, b) == IF a <= b THEN a ELSE b

Max(a, b) == IF a >= b THEN a ELSE b

Abs(a) == IF a >= 0 THEN a ELSE 0 - a

Infinity == 1000000

(***************************************************************************)
(* TabPreview.js: constants of the component.                              *)
(***************************************************************************)
stringNames == <<"E", "B", "G", "D", "A", "E">>

stringTuningDropD == <<64, 59, 55, 50, 45, 38>>

stringTuningLowE == <<64, 59, 55, 50, 45, 16>>

stringTuning == <<64, 59, 55, 50, 45, 40>>

ZoomInitial == 10

ZoomStep == 2

ZoomMax == 20

ZoomMin == 5

(***************************************************************************)
(* getTabStats.  The result is a record; status "null" is the early        *)
(* return, status "error" is the TypeError thrown by chord.strings.filter  *)
(* when an entry carries no strings array.                                 *)
(***************************************************************************)
RECURSIVE CountPlayedSkipOpen(_)
CountPlayedSkipOpen(strings) ==
    IF strings = <<>> THEN 0
    ELSE (IF Head(strings) > 0 THEN 1 ELSE 0) + CountPlayedSkipOpen(Tail(strings))

RECURSIVE CountPlayed(_)
CountPlayed(strings) ==
    IF strings = <<>> THEN 0
    ELSE (IF Head(strings) >= 0 THEN 1 ELSE 0) + CountPlayed(Tail(strings))

RECURSIVE ReduceTotalNotes(_, _)
ReduceTotalNotes(entries, acc) ==
    IF entries = <<>> THEN acc
    ELSE ReduceTotalNotes(Tail(entries), acc + CountPlayed(Head(entries).strings.items))

RECURSIVE ForEachString(_, _, _)
ForEachString(strings, stringIndex, acc) ==
    IF stringIndex >= Len(strings) THEN acc
    ELSE LET fret == strings[stringIndex + 1]
         IN  ForEachString(strings, stringIndex + 1,
                IF fret >= 0
                THEN [used |-> acc.used \cup {stringIndex},
                      min  |-> Min(acc.min, fret),
                      max  |-> Max(acc.max, fret)]
                ELSE acc)

RECURSIVE ForEachChord(_, _)
ForEachChord(entries, acc) ==
    IF entries = <<>> THEN acc
    ELSE ForEachChord(Tail(entries), ForEachString(Head(entries).strings.items, 0, acc))

NullRange == [isNull |-> TRUE]

getTabStatsEmptyIsNull(td) ==
    IF ~td.isArray \/ td.items = <<>> THEN [status |-> "null"]
    ELSE IF \E k \in 1..Len(td.items) : ~td.items[k].strings.isArray
    THEN [status |-> "error"]
    ELSE LET acc == ForEachChord(td.items, [used |-> {}, min |-> Infinity, max |-> 0 - Infinity])
         IN  [status      |-> "ok",
              totalChords |-> Len(td.items),
              totalNotes  |-> ReduceTotalNotes(td.items, 0),
              usedStrings |-> Cardinality(acc.used),
              fretRange   |-> IF acc.min = Infinity THEN NullRange
                              ELSE [isNull |-> FALSE, min |-> acc.min, max |-> acc.max]]

getTabStatsAlwaysRange(td) ==
    IF ~td.isArray THEN [status |-> "null"]
    ELSE IF \E k \in 1..Len(td.items) : ~td.items[k].strings.isArray
    THEN [status |-> "error"]
    ELSE LET acc == ForEachChord(td.items, [used |-> {}, min |-> Infinity, max |-> 0 - Infinity])
         IN  [status      |-> "ok",
              totalChords |-> Len(td.items),
              totalNotes  |-> ReduceTotalNotes(td.items, 0),
              usedStrings |-> Cardinality(acc.used),
              fretRange   |-> [isNull |-> FALSE, min |-> acc.min, max |-> acc.max]]

getTabStats(td) ==
    IF ~td.isArray THEN [status |-> "null"]
    ELSE IF \E k \in 1..Len(td.items) : ~td.items[k].strings.isArray
    THEN [status |-> "error"]
    ELSE LET acc == ForEachChord(td.items, [used |-> {}, min |-> Infinity, max |-> 0 - Infinity])
         IN  [status      |-> "ok",
              totalChords |-> Len(td.items),
              totalNotes  |-> ReduceTotalNotes(td.items, 0),
              usedStrings |-> Cardinality(acc.used),
              fretRange   |-> IF acc.min = Infinity THEN NullRange
                              ELSE [isNull |-> FALSE, min |-> acc.min, max |-> acc.max]]

(***************************************************************************)
(* TablatureDisplay.  Number.prototype.toFixed(1) rounds the time to the   *)
(* nearest tenth of a second; the label is <<seconds, tenth>> for the text *)
(* "seconds.tenth" followed by "s".  A fret number is rendered as its      *)
(* decimal digits.                                                         *)
(***************************************************************************)
toFixed1(ms) ==
    LET tenths == (ms + 50) \div 100
    IN  <<tenths \div 10, tenths % 10>>

RECURSIVE Digits(_)
Digits(n) == IF n < 10 THEN <<n>> ELSE Digits(n \div 10) \o <<n % 10>>

chordWidth(z) == 6 * z

lineHeight(z) == 3 * z

StringLineYReversed(stringIndex, z) == 50 + (5 - stringIndex) * lineHeight(z)

StringLineY(stringIndex, z) == 50 + stringIndex * lineHeight(z)

ChordXNoIndex(chordIndex, z) == 50 + chordWidth(z)

ChordX(chordIndex, z) == 50 + chordIndex * chordWidth(z)

MarkerDrawnSkipOpen(fret) == fret > 0

MarkerDrawnUnplayed(fret) == fret >= 0 - 1

MarkerDrawn(fret) == fret >= 0

FretMarkers(strings, z) ==
    { [stringIndex |-> i - 1,
       cy          |-> StringLineY(i - 1, z),
       text        |-> Digits(strings[i])] :
      i \in { j \in 1..Len(strings) : MarkerDrawn(strings[j]) } }

TablatureDisplay(td, z) ==
    IF ~td.isArray THEN [status |-> "nodata"]
    ELSE IF \E k \in 1..Len(td.items) : ~td.items[k].strings.isArray
    THEN [status |-> "error"]
    ELSE [status |-> "svg",
          totalWidth  |-> Len(td.items) * chordWidth(z) + 100,
          totalHeight |-> 6 * lineHeight(z) + 100,
          lines  |-> [i \in 1..Len(stringNames) |->
                        [label |-> stringNames[i], y |-> StringLineY(i - 1, z)]],
          chords |-> [k \in 1..Len(td.items) |->
                        [x       |-> ChordX(k - 1, z),
                         time    |-> toFixed1(td.items[k].time),
                         markers |-> FretMarkers(td.items[k].strings.items, z)]]]

(***************************************************************************)
(* The tablature core (backend module midi_to_tab.py, not part of the      *)
(* front-end sources): Tuning Model, Chord Grouper, Fret-Assignment Solver *)
(* and Tab Sequence Builder, as the design document describes them.  A     *)
(* note event is [pitch, onset, velocity] with the onset in milliseconds.  *)
(* The centre fret is a mean; it is kept multiplied by CenterScale so that *)
(* it stays an integer for chords of up to 6 notes.                        *)
(***************************************************************************)
MinFret == 0

MaxFret == 24

GroupWindow == 50

MaxStretch == 4

StretchPenalty == 100

Alpha == 1

Beta == 2

Gamma == 1

CenterScale == 60

Strings == 0..(Len(stringTuning) - 1)

openPitch(string) == stringTuning[string + 1]

Unreachable == 0 - 1

fretsFor(pitch, string) ==
    IF pitch >= openPitch(string) + MinFret /\ pitch - openPitch(string) <= MaxFret
    THEN pitch - openPitch(string)
    ELSE Unreachable

NoteBefore(a, b) ==
    \/ a.onset < b.onset
    \/ a.onset = b.onset /\ a.pitch < b.pitch

RECURSIVE InsertNote(_, _)
InsertNote(sorted, n) ==
    IF sorted = <<>> THEN <<n>>
    ELSE IF NoteBefore(n, Head(sorted)) THEN <<n>> \o sorted
    ELSE <<Head(sorted)>> \o InsertNote(Tail(sorted), n)

RECURSIVE SortNotes(_)
SortNotes(notes) ==
    IF notes = <<>> THEN <<>>
    ELSE InsertNote(SortNotes(SubSeq(notes, 1, Len(notes) - 1)), notes[Len(notes)])

HasPitch(chordNotes, pitch) == \E j \in 1..Len(chordNotes) : chordNotes[j].pitch = pitch

RECURSIVE GroupSweep(_, _)
GroupSweep(sorted, chords) ==
    IF sorted = <<>> THEN chords
    ELSE LET n    == Head(sorted)
             last == IF chords = <<>> THEN [time |-> 0, notes |-> <<>>] ELSE chords[Len(chords)]
         IN  IF chords # <<>> /\ n.onset - last.time <= GroupWindow
             THEN GroupSweep(Tail(sorted),
                      [chords EXCEPT ![Len(chords)] =
                          IF HasPitch(last.notes, n.pitch) THEN last
                          ELSE [last EXCEPT !.notes = Append(last.notes, n)]])
             ELSE GroupSweep(Tail(sorted), Append(chords, [time |-> n.onset, notes |-> <<n>>]))

GroupChords(notes) == GroupSweep(SortNotes(notes), <<>>)

HasCandidate(pitch) == \E s \in Strings : fretsFor(pitch, s) # Unreachable

Assignments(chordNotes) ==
    { a \in [1..Len(chordNotes) -> Strings] :
        /\ \A i, j \in 1..Len(chordNotes) : i # j => a[i] # a[j]
        /\ \A i \in 1..Len(chordNotes) : fretsFor(chordNotes[i].pitch, a[i]) # Unreachable }

LowerPriority(a, b) ==
    \/ a.velocity < b.velocity
    \/ a.velocity = b.velocity /\ a.pitch <= b.pitch

RECURSIVE DropUnreachable(_)
DropUnreachable(chordNotes) ==
    IF chordNotes = <<>> THEN <<>>
    ELSE IF HasCandidate(Head(chordNotes).pitch)
         THEN <<Head(chordNotes)>> \o DropUnreachable(Tail(chordNotes))
         ELSE DropUnreachable(Tail(chordNotes))

RECURSIVE DropUntilFeasible(_)
DropUntilFeasible(chordNotes) ==
    IF Assignments(chordNotes) # {} THEN chordNotes
    ELSE LET k == CHOOSE i \in 1..Len(chordNotes) :
                     \A j \in 1..Len(chordNotes) : LowerPriority(chordNotes[i], chordNotes[j])
         IN  DropUntilFeasible(SubSeq(chordNotes, 1, k - 1) \o
                               SubSeq(chordNotes, k + 1, Len(chordNotes)))

Retained(chordNotes) == DropUntilFeasible(DropUnreachable(chordNotes))

StringsOf(chordNotes, a) ==
    [i \in 1..Len(stringTuning) |->
        IF \E j \in 1..Len(chordNotes) : a[j] = i - 1
        THEN LET j == CHOOSE j \in 1..Len(chordNotes) : a[j] = i - 1
             IN  fretsFor(chordNotes[j].pitch, i - 1)
        ELSE 0 - 1]

RECURSIVE SumFretted(_)
SumFretted(strings) ==
    IF strings = <<>> THEN 0
    ELSE (IF Head(strings) > 0 THEN Head(strings) ELSE 0) + SumFretted(Tail(strings))

FrettedCount(strings) == Cardinality({ i \in 1..Len(strings) : strings[i] > 0 })

centerFret(strings) ==
    IF FrettedCount(strings) = 0 THEN 0
    ELSE (CenterScale * SumFretted(strings)) \div FrettedCount(strings)

fretSpan(strings) ==
    LET fretted == { strings[i] : i \in { j \in 1..Len(strings) : strings[j] > 0 } }
    IN  IF fretted = {} THEN 0
        ELSE (CHOOSE hi \in fretted : \A f \in fretted : f <= hi)
             - (CHOOSE lo \in fretted : \A f \in fretted : lo <= f)

stringPreferencePenalty(strings) ==
    (IF strings[1] >= 0 THEN 1 ELSE 0) + (IF strings[Len(strings)] >= 0 THEN 1 ELSE 0)

cost(strings, previousCenter) ==
    LET span == fretSpan(strings)
    IN  Alpha * CenterScale * (span + (IF span > MaxStretch THEN StretchPenalty ELSE 0))
        + Beta * Abs(centerFret(strings) - previousCenter)
        + Gamma * CenterScale * stringPreferencePenalty(strings)

RECURSIVE LexLess(_, _)
LexLess(a, b) ==
    IF a = <<>> \/ b = <<>> THEN FALSE
    ELSE IF Head(a) # Head(b) THEN Head(a) < Head(b)
    ELSE LexLess(Tail(a), Tail(b))

UsedKey(strings) == [i \in 1..Len(strings) |-> IF strings[i] >= 0 THEN 0 ELSE 1]

Better(s, t, previousCenter) ==
    LexLess(<<cost(s, previousCenter)>> \o UsedKey(s) \o s,
            <<cost(t, previousCenter)>> \o UsedKey(t) \o t)

SolveChord(chordNotes, previousCenter) ==
    LET kept  == Retained(chordNotes)
        cands == { StringsOf(kept, a) : a \in Assignments(kept) }
        best  == CHOOSE s \in cands : \A t \in cands : t = s \/ Better(s, t, previousCenter)
    IN  [strings |-> best,
         dropped |-> Len(chordNotes) - Len(kept),
         center  |-> centerFret(best)]

RECURSIVE SolveAll(_, _, _)
SolveAll(chords, previousCenter, out) ==
    IF chords = <<>> THEN out
    ELSE LET r == SolveChord(Head(chords).notes, previousCenter)
         IN  SolveAll(Tail(chords), r.center,
                      Append(out, [time    |-> Head(chords).time,
                                   strings |-> r.strings,
                                   dropped |-> r.dropped]))

GenerateTab(notes) ==
    LET solved == SolveAll(GroupChords(notes), 0, <<>>)
    IN  [tab_data |-> [k \in 1..Len(solved) |->
                          [time |-> solved[k].time, strings |-> Arr(solved[k].strings)]],
         dropped  |-> [k \in 1..Len(solved) |-> solved[k].dropped]]

(***************************************************************************)
(* State.  TabPreview: the prop tabData, the hooks zoom and scroll, and    *)
(* what the last render produced (stats, display).  notes and dropped are  *)
(* the note events the tab sequence was generated from and the core's      *)
(* per-chord drop counts.                                                  *)
(***************************************************************************)
VARIABLES tabData, zoom, scroll, stats, display, notes, dropped

previewVars == <<tabData, zoom, scroll, stats, display, notes, dropped>>

(***************************************************************************)
(* State.  App: processedFiles and darkMode.  ProcessedFilesList: the      *)
(* hooks processing and activeTab.  pending counts, per file id, the POST  *)
(* requests awaiting their response; lastDownload is the download request  *)
(* sent last; nextId is the next file id the server hands out.             *)
(***************************************************************************)
VARIABLES processedFiles, darkMode, processing, activeTab, pending, lastDownload, nextId, alerted

appVars == <<processedFiles, darkMode, processing, activeTab, pending, lastDownload, nextId, alerted>>

(***************************************************************************)
(* State.  FileUploader: the hooks uploadStatus and isUploading; upload is *)
(* the POST /upload request awaiting its response, with the files sent,    *)
(* the initialStatus its handler closed over and the bytes reported sent;  *)
(* timers counts the scheduled status-clearing timeouts; lastCall is the   *)
(* FileUploader callback that ran last, with the files it was given.       *)
(* checkedFile and validation are an input of validateFile and its result. *)
(***************************************************************************)
VARIABLES uploadStatus, isUploading, upload, timers, lastCall, checkedFile, validation

uploaderVars == <<uploadStatus, isUploading, upload, timers, lastCall, checkedFile, validation>>

vars == <<tabData, zoom, scroll, stats, display, notes, dropped,
          processedFiles, darkMode, processing, activeTab, pending, lastDownload, nextId, alerted,
          uploadStatus, isUploading, upload, timers, lastCall, checkedFile, validation>>

(***************************************************************************)
(* Inputs.  TabEntryInputs are entries of any shape a JSON response can    *)
(* carry; NoteInputs are note events of a transcription.                   *)
(***************************************************************************)
TabEntryInputs ==
    { [time |-> 0,   strings |-> Arr(<<-1, -1, -1, -1, -1, -1>>)],
      [time |-> 100, strings |-> Arr(<<-1, 1, -1, -1, -1, -1>>)],
      [time |-> 120, strings |-> Arr(<<-1, 1, -1, -1, -1, -1>>)],
      [time |-> 60,  strings |-> Arr(<<0, -1, 3, -1, -1, 24>>)],
      [time |-> 40,  strings |-> Arr(<<25, -2>>)],
      [time |-> 500, strings |-> Undefined] }

SeqsUpTo(S, n) == UNION { [1..k -> S] : k \in 0..n }

TabInputs == { Undefined } \cup { Arr(q) : q \in SeqsUpTo(TabEntryInputs, MaxChords) }

NoteInputs ==
    { [pitch |-> 20, onset |-> 0,   velocity |-> 80],
      [pitch |-> 40, onset |-> 0,   velocity |-> 40],
      [pitch |-> 41, onset |-> 30,  velocity |-> 80],
      [pitch |-> 48, onset |-> 0,   velocity |-> 80],
      [pitch |-> 60, onset |-> 60,  velocity |-> 80],
      [pitch |-> 60, onset |-> 120, velocity |-> 80],
      [pitch |-> 64, onset |-> 120, velocity |-> 40],
      [pitch |-> 88, onset |-> 30,  velocity |-> 80] }

(***************************************************************************)
(* FileUploader.js: validateFile.  A file is [name, type, size]; the name  *)
(* is the sequence of its characters, so that the regular expression       *)
(* /\.(mp3|wav|flac)$/i is a test on its last characters.                  *)
(***************************************************************************)
supportedTypes == <<"audio/mpeg", "audio/wav", "audio/flac", "audio/x-flac">>

maxSize == 50 * 1024 * 1024

UnsupportedType == "Unsupported file type. Please use MP3, WAV, or FLAC."

TooLarge == "File too large. Maximum size is 50MB."

NoError == "undefined"

extensions == << <<"m", "p", "3">>, <<"w", "a", "v">>, <<"f", "l", "a", "c">> >>

UpperCase == <<"A", "B", "C", "D", "E", "F", "G", "H", "I", "J", "K", "L", "M",
               "N", "O", "P", "Q", "R", "S", "T", "U", "V", "W", "X", "Y", "Z">>

LowerCase == <<"a", "b", "c", "d", "e", "f", "g", "h", "i", "j", "k", "l", "m",
               "n", "o", "p", "q", "r", "s", "t", "u", "v", "w", "x", "y", "z">>

ToLower(c) ==
    IF \E i \in 1..Len(UpperCase) : UpperCase[i] = c
    THEN LowerCase[CHOOSE i \in 1..Len(UpperCase) : UpperCase[i] = c]
    ELSE c

RECURSIVE includes(_, _)
includes(array, value) ==
    IF array = <<>> THEN FALSE
    ELSE Head(array) = value \/ includes(Tail(array), value)

EndsWithIgnoreCase(name, suffix) ==
    /\ Len(name) >= Len(suffix)
    /\ \A i \in 1..Len(suffix) : ToLower(name[Len(name) - Len(suffix) + i]) = suffix[i]

matchesExtension(name) ==
    \E e \in 1..Len(extensions) : EndsWithIgnoreCase(name, <<".">> \o extensions[e])

validateFileSizeFirst(f) ==
    IF f.size > maxSize
    THEN [valid |-> FALSE, error |-> TooLarge]
    ELSE IF ~includes(supportedTypes, f.type) /\ ~matchesExtension(f.name)
    THEN [valid |-> FALSE, error |-> UnsupportedType]
    ELSE [valid |-> TRUE, error |-> NoError]

validateFileStrictLimit(f) ==
    IF ~includes(supportedTypes, f.type) /\ ~matchesExtension(f.name)
    THEN [valid |-> FALSE, error |-> UnsupportedType]
    ELSE IF f.size >= maxSize
    THEN [valid |-> FALSE, error |-> TooLarge]
    ELSE [valid |-> TRUE, error |-> NoError]

validateFile(f) ==
    IF ~includes(supportedTypes, f.type) /\ ~matchesExtension(f.name)
    THEN [valid |-> FALSE, error |-> UnsupportedType]
    ELSE IF f.size > maxSize
    THEN [valid |-> FALSE, error |-> TooLarge]
    ELSE [valid |-> TRUE, error |-> NoError]

FileNameInputs ==
    { <<"a", ".", "m", "p", "3">>,
      <<"A", ".", "M", "P", "3">>,
      <<"a", ".", "W", "a", "v">>,
      <<"a", ".", "f", "l", "a", "c">>,
      <<"a", ".", "t", "x", "t">>,
      <<"m", "p", "3">>,
      <<"a", ".", "m", "p", "3", "x">>,
      <<".", "w", "a", "v">> }

FileTypeInputs ==
    { "audio/mpeg", "audio/wav", "audio/flac", "audio/x-flac", "audio/ogg", "", "AUDIO/MPEG" }

FileSizeInputs == { 0, maxSize - 1, maxSize, maxSize + 1 }

FileInputs == [name : FileNameInputs, type : FileTypeInputs, size : FileSizeInputs]

NoUpload == [active |-> FALSE, files |-> <<>>, initialStatus |-> <<>>, loaded |-> 0]

Call(handler, acceptedFiles) == [handler |-> handler, acceptedFiles |-> acceptedFiles]

UploaderInit ==
    /\ uploadStatus = <<>>
    /\ isUploading = FALSE
    /\ upload = NoUpload
    /\ timers = 0
    /\ lastCall = Call("none", <<>>)

NoFile == [name |-> <<>>, type |-> "", size |-> 0]

NoValidation ==
    /\ checkedFile = NoFile
    /\ validation = validateFile(NoFile)

(***************************************************************************)
(* App.js and ProcessedFilesList.js.  A file of the list is a record; the  *)
(* fields midiFile and tabData exist only after an update, before that     *)
(* they read as undefined.  processing[id] and activeTab[id] read as       *)
(* undefined (falsy) until set; "null" and "none" stand for that.          *)
(***************************************************************************)
MaxFiles == 2

MaxBatch == 2

FileIds == 1..MaxFiles

(* App and ProcessedFilesList copy and show the file name, nothing more. *)
FileNames == {"a.mp3"}

NoMidiFile == "undefined"

MidiFiles == {"out.mid"}

TabResponses ==
    { Arr(GenerateTab(q).tab_data) :
        q \in { <<>>,
                <<[pitch |-> 20, onset |-> 0, velocity |-> 80],
                  [pitch |-> 88, onset |-> 30, velocity |-> 80]>> } }

(* window.alert: alerted is the message the last callback showed. *)
NoAlert == "none"

MidiFailedMessage == "Failed to process audio to MIDI. Please try again."

TabFailedMessage == "Failed to generate guitar tab. Please try again."

IdsInList == { processedFiles[k].id : k \in 1..Len(processedFiles) }

FileOf(fileId) == processedFiles[CHOOSE k \in 1..Len(processedFiles) : processedFiles[k].id = fileId]

RECURSIVE FilterUploaded(_)
FilterUploaded(results) ==
    IF results = <<>> THEN <<>>
    ELSE (IF Head(results).status = "uploaded"
          THEN <<[id            |-> Head(results).file_id,
                  filename      |-> Head(results).filename,
                  status        |-> "uploaded",
                  midiProcessed |-> FALSE,
                  tabGenerated  |-> FALSE,
                  midiFile      |-> NoMidiFile,
                  tabData       |-> Undefined]>>
          ELSE <<>>) \o FilterUploaded(Tail(results))

(* The server numbers the files it stored consecutively from firstId; a    *)
(* result that is an error carries no file id (0).                         *)
RECURSIVE NumberResults(_, _)
NumberResults(results, firstId) ==
    IF results = <<>> THEN <<>>
    ELSE IF Head(results).status = "uploaded"
         THEN <<[Head(results) EXCEPT !.file_id = firstId]>> \o NumberResults(Tail(results), firstId + 1)
         ELSE <<Head(results)>> \o NumberResults(Tail(results), firstId)

UploadResponses ==
    { NumberResults(r, nextId) :
        r \in UNION { [1..k -> [file_id : {0}, filename : FileNames, status : {"uploaded", "error"}]] :
                        k \in 1..MaxBatch } }

handleFilesUploadedPrepends(uploadResults) ==
    /\ nextId + Len(FilterUploaded(uploadResults)) <= MaxFiles + 1
    /\ processedFiles' = FilterUploaded(uploadResults) \o processedFiles
    /\ nextId' = nextId + Len(FilterUploaded(uploadResults))
    /\ UNCHANGED <<darkMode, processing, activeTab, pending, lastDownload>>
    /\ alerted' = NoAlert
    /\ UNCHANGED previewVars
    /\ UNCHANGED uploaderVars

handleFilesUploaded(uploadResults) ==
    /\ nextId + Len(FilterUploaded(uploadResults)) <= MaxFiles + 1
    /\ processedFiles' = processedFiles \o FilterUploaded(uploadResults)
    /\ nextId' = nextId + Len(FilterUploaded(uploadResults))
    /\ UNCHANGED <<darkMode, processing, activeTab, pending, lastDownload>>
    /\ alerted' = NoAlert
    /\ UNCHANGED previewVars
    /\ UNCHANGED uploaderVars

MergeResets(file, updates) ==
    [k \in DOMAIN file |->
        IF k \in DOMAIN updates THEN updates[k]
        ELSE IF k = "midiProcessed" THEN FALSE
        ELSE file[k]]

Merge(file, updates) ==
    [k \in DOMAIN file |-> IF k \in DOMAIN updates THEN updates[k] ELSE file[k]]

updateFileStatusAnyId(prev, fileId, updates) ==
    [k \in 1..Len(prev) |-> Merge(prev[k], updates)]

updateFileStatus(prev, fileId, updates) ==
    [k \in 1..Len(prev) |-> IF prev[k].id = fileId THEN Merge(prev[k], updates) ELSE prev[k]]

toggleDarkMode ==
    /\ darkMode' = ~darkMode
    /\ UNCHANGED <<processedFiles, processing, activeTab, pending, lastDownload, nextId>>
    /\ alerted' = NoAlert
    /\ UNCHANGED previewVars
    /\ UNCHANGED uploaderVars

(* Render conditions of the buttons of one file. *)
CanProcessToMidi(file) == ~file.midiProcessed /\ processing[file.id] = "null"

CanGenerateTabUnprocessed(file) == ~file.tabGenerated /\ processing[file.id] = "null"

CanGenerateTabWhileBusy(file) == file.midiProcessed /\ ~file.tabGenerated

CanGenerateTab(file) ==
    file.midiProcessed /\ ~file.tabGenerated /\ processing[file.id] = "null"

CanDownloadMidi(file) == file.midiProcessed

CanDownloadPdf(file) == file.tabGenerated

CanSelectTab(file, tab) ==
    /\ file.midiProcessed \/ file.tabGenerated
    /\ tab = "midi" => file.midiProcessed
    /\ tab = "tab" => file.tabGenerated

ShowsMidiPreview(file) == activeTab[file.id] = "midi" /\ file.midiProcessed

ShowsTabPreview(file) == activeTab[file.id] = "tab" /\ file.tabGenerated

handleProcessToMidi(fileId) ==
    /\ fileId \in IdsInList
    /\ CanProcessToMidi(FileOf(fileId))
    /\ processing' = [processing EXCEPT ![fileId] = "midi"]
    /\ pending' = [pending EXCEPT ![fileId].midi = @ + 1]
    /\ UNCHANGED <<processedFiles, darkMode, activeTab, lastDownload, nextId>>
    /\ alerted' = NoAlert
    /\ UNCHANGED previewVars
    /\ UNCHANGED uploaderVars

ProcessToMidiSettledNoFinally(fileId, outcome, midiFile) ==
    /\ pending[fileId].midi > 0
    /\ pending' = [pending EXCEPT ![fileId].midi = @ - 1]
    /\ processedFiles' =
          IF outcome = "processed"
          THEN updateFileStatus(processedFiles, fileId,
                                [midiProcessed |-> TRUE, midiFile |-> midiFile])
          ELSE processedFiles
    /\ processing' = IF outcome = "throw" THEN processing ELSE [processing EXCEPT ![fileId] = "null"]
    /\ alerted' = IF outcome = "throw" THEN MidiFailedMessage ELSE NoAlert
    /\ UNCHANGED <<darkMode, activeTab, lastDownload, nextId>>
    /\ UNCHANGED previewVars
    /\ UNCHANGED uploaderVars

(* The response of POST /process/{id}: status "processed" with the MIDI    *)
(* file, another status, or a rejected request (catch); finally clears the *)
(* processing flag.                                                        *)
ProcessToMidiSettled(fileId, outcome, midiFile) ==
    /\ pending[fileId].midi > 0
    /\ pending' = [pending EXCEPT ![fileId].midi = @ - 1]
    /\ processedFiles' =
          IF outcome = "processed"
          THEN updateFileStatus(processedFiles, fileId,
                                [midiProcessed |-> TRUE, midiFile |-> midiFile])
          ELSE processedFiles
    /\ processing' = [processing EXCEPT ![fileId] = "null"]
    /\ UNCHANGED <<darkMode, activeTab, lastDownload, nextId>>
    /\ alerted' = IF outcome = "throw" THEN MidiFailedMessage ELSE NoAlert
    /\ UNCHANGED previewVars
    /\ UNCHANGED uploaderVars

handleGenerateTab(fileId) ==
    /\ fileId \in IdsInList
    /\ CanGenerateTab(FileOf(fileId))
    /\ processing' = [processing EXCEPT ![fileId] = "tab"]
    /\ pending' = [pending EXCEPT ![fileId].tab = @ + 1]
    /\ UNCHANGED <<processedFiles, darkMode, activeTab, lastDownload, nextId>>
    /\ alerted' = NoAlert
    /\ UNCHANGED previewVars
    /\ UNCHANGED uploaderVars

GenerateTabSettled(fileId, outcome, tab_data) ==
    /\ pending[fileId].tab > 0
    /\ pending' = [pending EXCEPT ![fileId].tab = @ - 1]
    /\ processedFiles' =
          IF outcome = "tab_generated"
          THEN updateFileStatus(processedFiles, fileId,
                                [tabGenerated |-> TRUE, tabData |-> tab_data])
          ELSE processedFiles
    /\ processing' = [processing EXCEPT ![fileId] = "null"]
    /\ UNCHANGED <<darkMode, activeTab, lastDownload, nextId>>
    /\ alerted' = IF outcome = "throw" THEN TabFailedMessage ELSE NoAlert
    /\ UNCHANGED previewVars
    /\ UNCHANGED uploaderVars

handleDownloadMidi(fileId) ==
    /\ fileId \in IdsInList
    /\ CanDownloadMidi(FileOf(fileId))
    /\ lastDownload' = <<"midi", fileId>>
    /\ UNCHANGED <<processedFiles, darkMode, processing, activeTab, pending, nextId>>
    /\ alerted' = NoAlert
    /\ UNCHANGED previewVars
    /\ UNCHANGED uploaderVars

handleDownloadPdf(fileId) ==
    /\ fileId \in IdsInList
    /\ CanDownloadPdf(FileOf(fileId))
    /\ lastDownload' = <<"pdf", fileId>>
    /\ UNCHANGED <<processedFiles, darkMode, processing, activeTab, pending, nextId>>
    /\ alerted' = NoAlert
    /\ UNCHANGED previewVars
    /\ UNCHANGED uploaderVars

setFileActiveTab(fileId, tab) ==
    /\ fileId \in IdsInList
    /\ CanSelectTab(FileOf(fileId), tab)
    /\ activeTab' = [activeTab EXCEPT ![fileId] = tab]
    /\ UNCHANGED <<processedFiles, darkMode, processing, pending, lastDownload, nextId>>
    /\ alerted' = NoAlert
    /\ UNCHANGED previewVars
    /\ UNCHANGED uploaderVars

AppInit ==
    /\ processedFiles = <<>>
    /\ darkMode = FALSE
    /\ processing = [f \in FileIds |-> "null"]
    /\ activeTab = [f \in FileIds |-> "none"]
    /\ pending = [f \in FileIds |-> [midi |-> 0, tab |-> 0]]
    /\ lastDownload = <<"none", 0>>
    /\ nextId = 1
    /\ alerted = NoAlert

Next ==
    \/ \E r \in UploadResponses : handleFilesUploaded(r)
    \/ toggleDarkMode
    \/ \E f \in FileIds : handleProcessToMidi(f)
    \/ \E f \in FileIds : \E m \in MidiFiles : ProcessToMidiSettled(f, "processed", m)
    \/ \E f \in FileIds : \E o \in {"failed", "throw"} : ProcessToMidiSettled(f, o, NoMidiFile)
    \/ \E f \in FileIds : handleGenerateTab(f)
    \/ \E f \in FileIds : \E t \in TabResponses : GenerateTabSettled(f, "tab_generated", t)
    \/ \E f \in FileIds : \E o \in {"failed", "throw"} : GenerateTabSettled(f, o, Undefined)
    \/ \E f \in FileIds : handleDownloadMidi(f)
    \/ \E f \in FileIds : handleDownloadPdf(f)
    \/ \E f \in FileIds : \E t \in {"midi", "tab"} : setFileActiveTab(f, t)

(***************************************************************************)
(* TabPreview: mount (first render) and the three view handlers.  Every    *)
(* state change re-renders the component: the body calls getTabStats and   *)
(* TablatureDisplay again.  A render that throws unmounts the component,   *)
(* so no handler can run afterwards.                                       *)
(***************************************************************************)
Mounted == stats.status # "error"

RenderPerZoom(td, z) ==
    /\ stats' = IF z > ZoomInitial
                THEN [getTabStats(td) EXCEPT !.totalChords = @ + 1]
                ELSE getTabStats(td)
    /\ display' = TablatureDisplay(td, z)

Render(td, z) ==
    /\ stats' = getTabStats(td)
    /\ display' = TablatureDisplay(td, z)

handleZoomInUnclamped ==
    /\ Mounted
    /\ zoom < ZoomMax
    /\ zoom' = zoom + ZoomStep
    /\ Render(tabData, zoom')
    /\ UNCHANGED <<tabData, scroll, notes, dropped>>
    /\ UNCHANGED appVars
    /\ UNCHANGED uploaderVars

handleZoomIn ==
    /\ Mounted
    /\ zoom < ZoomMax
    /\ zoom' = Min(zoom + ZoomStep, ZoomMax)
    /\ Render(tabData, zoom')
    /\ UNCHANGED <<tabData, scroll, notes, dropped>>
    /\ UNCHANGED appVars
    /\ UNCHANGED uploaderVars

handleZoomOut ==
    /\ Mounted
    /\ zoom > ZoomMin
    /\ zoom' = Max(zoom - ZoomStep, ZoomMin)
    /\ Render(tabData, zoom')
    /\ UNCHANGED <<tabData, scroll, notes, dropped>>
    /\ UNCHANGED appVars
    /\ UNCHANGED uploaderVars

handleResetClearsTab ==
    /\ Mounted
    /\ zoom' = ZoomInitial
    /\ scroll' = 0
    /\ tabData' = Arr(<<>>)
    /\ Render(tabData', zoom')
    /\ UNCHANGED <<notes, dropped>>
    /\ UNCHANGED appVars
    /\ UNCHANGED uploaderVars

handleReset ==
    /\ Mounted
    /\ zoom' = ZoomInitial
    /\ scroll' = 0
    /\ Render(tabData, zoom')
    /\ UNCHANGED <<tabData, notes, dropped>>
    /\ UNCHANGED appVars
    /\ UNCHANGED uploaderVars

PreviewNext == handleZoomIn \/ handleZoomOut \/ handleReset

PreviewMount(td) ==
    /\ tabData = td
    /\ zoom = ZoomInitial
    /\ scroll = 0
    /\ stats = getTabStats(td)
    /\ display = TablatureDisplay(td, ZoomInitial)

PreviewInit ==
    /\ \E td \in TabInputs : PreviewMount(td)
    /\ notes = <<>>
    /\ dropped = <<>>
    /\ AppInit
    /\ UploaderInit
    /\ NoValidation

PreviewSpec == PreviewInit /\ [][PreviewNext]_vars

TabInit ==
    /\ notes \in SeqsUpTo(NoteInputs, MaxNotes)
    /\ dropped = GenerateTab(notes).dropped
    /\ PreviewMount(Arr(GenerateTab(notes).tab_data))
    /\ AppInit
    /\ UploaderInit
    /\ NoValidation

TabSpec == TabInit /\ [][PreviewNext]_vars

(* The application: no preview is mounted. *)
Init ==
    /\ AppInit
    /\ PreviewMount(Undefined)
    /\ notes = <<>>
    /\ dropped = <<>>
    /\ UploaderInit
    /\ NoValidation

Spec == Init /\ [][Next]_vars

(***************************************************************************)
(* The workflow with a server that eventually answers: a request in flight *)
(* is settled, and the continuation after its await then runs.  Fairness   *)
(* is on the arrival of an answer, not on its content: each action below   *)
(* is enabled exactly while a request of the file is in flight, and every  *)
(* answer, whatever it carries, disables it.                               *)
(***************************************************************************)
ProcessAnswered(fileId) ==
    \/ \E m \in MidiFiles : ProcessToMidiSettled(fileId, "processed", m)
    \/ \E o \in {"failed", "throw"} : ProcessToMidiSettled(fileId, o, NoMidiFile)

GenerateAnswered(fileId) ==
    \/ GenerateTabSettled(fileId, "tab_generated", Arr(<<>>))
    \/ \E o \in {"failed", "throw"} : GenerateTabSettled(fileId, o, Undefined)

LiveSpec ==
    /\ Init
    /\ [][Next]_vars
    /\ \A f \in FileIds : WF_vars(ProcessAnswered(f)) /\ WF_vars(GenerateAnswered(f))

(***************************************************************************)
(* FileUploader.js: onDrop, split at its await.  onDrop runs up to the     *)
(* POST /upload; onUploadProgress is the request's progress callback;      *)
(* onDropResponse is the continuation after the response, onDropCatch the  *)
(* catch branch, each followed by the finally block; clearUploadStatus is  *)
(* the timeout callback.  The server answers one result per file sent.     *)
(***************************************************************************)
MaxTimers == 2

ProgressTotal == 3

UploadFailedMessage == "Upload failed. Please try again."

ServerMessages == {"rejected by server"}

DropFiles ==
    { [name |-> <<"a", ".", "M", "P", "3">>, type |-> "", size |-> maxSize],
      [name |-> <<"a", ".", "M", "P", "3">>, type |-> "audio/mpeg", size |-> maxSize + 1],
      [name |-> <<"c", ".", "t", "x", "t">>, type |-> "text/plain", size |-> 1] }

DropBatches == SeqsUpTo(DropFiles, MaxBatch)

RECURSIVE filterValid(_)
filterValid(fileValidations) ==
    IF fileValidations = <<>> THEN <<>>
    ELSE (IF Head(fileValidations).valid THEN <<Head(fileValidations).file>> ELSE <<>>)
         \o filterValid(Tail(fileValidations))

fileValidationsOf(acceptedFiles) ==
    [i \in 1..Len(acceptedFiles) |->
        [file  |-> acceptedFiles[i],
         valid |-> validateFile(acceptedFiles[i]).valid,
         error |-> validateFile(acceptedFiles[i]).error]]

initialStatusOf(fileValidations) ==
    [i \in 1..Len(fileValidations) |->
        [name     |-> fileValidations[i].file.name,
         status   |-> IF fileValidations[i].valid THEN "uploading" ELSE "error",
         error    |-> IF fileValidations[i].error = NoError THEN "null" ELSE fileValidations[i].error,
         progress |-> 0]]

onDropSendsAll(acceptedFiles) ==
    IF isUploading
    THEN UNCHANGED vars
    ELSE LET fileValidations == fileValidationsOf(acceptedFiles)
             initialStatus == initialStatusOf(fileValidations)
         IN  /\ timers < MaxTimers
             /\ uploadStatus' = initialStatus
             /\ IF acceptedFiles = <<>>
                THEN /\ isUploading' = FALSE
                     /\ upload' = NoUpload
                ELSE /\ isUploading' = TRUE
                     /\ upload' = [active |-> TRUE, files |-> acceptedFiles,
                                   initialStatus |-> initialStatus, loaded |-> 0]
             /\ lastCall' = Call("onDrop", acceptedFiles)
             /\ UNCHANGED <<timers, checkedFile, validation>>
             /\ UNCHANGED appVars
             /\ UNCHANGED previewVars

onDropNoGuard(acceptedFiles) ==
    LET fileValidations == fileValidationsOf(acceptedFiles)
        initialStatus == initialStatusOf(fileValidations)
        validFiles == filterValid(fileValidations)
    IN  /\ timers < MaxTimers
        /\ uploadStatus' = initialStatus
        /\ IF validFiles = <<>>
           THEN /\ isUploading' = FALSE
                /\ upload' = NoUpload
           ELSE /\ isUploading' = TRUE
                /\ upload' = [active |-> TRUE, files |-> validFiles,
                              initialStatus |-> initialStatus, loaded |-> 0]
        /\ lastCall' = Call("onDrop", acceptedFiles)
        /\ UNCHANGED <<timers, checkedFile, validation>>
        /\ UNCHANGED appVars
        /\ UNCHANGED previewVars

onDrop(acceptedFiles) ==
    IF isUploading
    THEN UNCHANGED vars
    ELSE LET fileValidations == fileValidationsOf(acceptedFiles)
             initialStatus == initialStatusOf(fileValidations)
             validFiles == filterValid(fileValidations)
         IN  /\ timers < MaxTimers
             /\ uploadStatus' = initialStatus
             /\ IF validFiles = <<>>
                THEN /\ isUploading' = FALSE
                     /\ upload' = NoUpload
                ELSE /\ isUploading' = TRUE
                     /\ upload' = [active |-> TRUE, files |-> validFiles,
                                   initialStatus |-> initialStatus, loaded |-> 0]
             /\ lastCall' = Call("onDrop", acceptedFiles)
             /\ UNCHANGED <<timers, checkedFile, validation>>
             /\ UNCHANGED appVars
             /\ UNCHANGED previewVars

roundPercent(loaded, total) == (2 * loaded * 100 + total) \div (2 * total)

onUploadProgress(loaded) ==
    /\ upload.active
    /\ loaded >= upload.loaded
    /\ uploadStatus' =
          [i \in 1..Len(uploadStatus) |->
              IF uploadStatus[i].status = "uploading"
              THEN [uploadStatus[i] EXCEPT !.progress = roundPercent(loaded, ProgressTotal)]
              ELSE uploadStatus[i]]
    /\ upload' = [upload EXCEPT !.loaded = loaded]
    /\ lastCall' = Call("onUploadProgress", <<>>)
    /\ UNCHANGED <<isUploading, timers, checkedFile, validation>>
    /\ UNCHANGED appVars
    /\ UNCHANGED previewVars

(* The responses the server can give to the request in flight. *)
UploadResults ==
    { NumberResults([i \in 1..Len(upload.files) |->
                        [file_id  |-> 0,
                         filename |-> upload.files[i].name,
                         status   |-> answer[i],
                         message  |-> IF answer[i] = "error" THEN msg ELSE "File uploaded successfully"]],
                    nextId) :
        answer \in [1..Len(upload.files) -> {"uploaded", "error"}], msg \in ServerMessages }

HasResult(results, name) == \E k \in 1..Len(results) : results[k].filename = name

find(results, name) ==
    results[CHOOSE k \in 1..Len(results) :
                /\ results[k].filename = name
                /\ \A j \in 1..(k - 1) : results[j].filename # name]

updatedStatusOf(initialStatus, results) ==
    [i \in 1..Len(initialStatus) |->
        IF HasResult(results, initialStatus[i].name)
        THEN LET result == find(results, initialStatus[i].name)
             IN  [name     |-> initialStatus[i].name,
                  status   |-> IF result.status = "uploaded" THEN "success" ELSE "error",
                  error    |-> IF result.status = "error" THEN result.message ELSE "null",
                  progress |-> 100]
        ELSE initialStatus[i]]

onDropResponse(results) ==
    /\ upload.active
    /\ nextId + Len(FilterUploaded(results)) <= MaxFiles + 1
    /\ uploadStatus' = updatedStatusOf(upload.initialStatus, results)
    /\ processedFiles' = processedFiles \o FilterUploaded(results)
    /\ nextId' = nextId + Len(FilterUploaded(results))
    /\ timers' = timers + 1
    /\ isUploading' = FALSE
    /\ upload' = NoUpload
    /\ lastCall' = Call("onDropResponse", <<>>)
    /\ UNCHANGED <<checkedFile, validation>>
    /\ UNCHANGED <<darkMode, processing, activeTab, pending, lastDownload, alerted>>
    /\ UNCHANGED previewVars

onDropCatchKeepsStatus ==
    /\ upload.active
    /\ uploadStatus' = uploadStatus
    /\ isUploading' = FALSE
    /\ upload' = NoUpload
    /\ lastCall' = Call("onDropCatch", <<>>)
    /\ UNCHANGED <<timers, checkedFile, validation>>
    /\ UNCHANGED appVars
    /\ UNCHANGED previewVars

onDropCatch ==
    /\ upload.active
    /\ uploadStatus' =
          [i \in 1..Len(uploadStatus) |->
              [uploadStatus[i] EXCEPT !.status = "error", !.error = UploadFailedMessage]]
    /\ isUploading' = FALSE
    /\ upload' = NoUpload
    /\ lastCall' = Call("onDropCatch", <<>>)
    /\ UNCHANGED <<timers, checkedFile, validation>>
    /\ UNCHANGED appVars
    /\ UNCHANGED previewVars

clearUploadStatus ==
    /\ timers > 0
    /\ uploadStatus' = <<>>
    /\ timers' = timers - 1
    /\ lastCall' = Call("clearUploadStatus", <<>>)
    /\ UNCHANGED <<isUploading, upload, checkedFile, validation>>
    /\ UNCHANGED appVars
    /\ UNCHANGED previewVars

UploadNext ==
    \/ \E acceptedFiles \in DropBatches : onDrop(acceptedFiles)
    \/ \E loaded \in 0..ProgressTotal : onUploadProgress(loaded)
    \/ \E results \in UploadResults : onDropResponse(results)
    \/ onDropCatch
    \/ clearUploadStatus

UploadSpec == Init /\ [][UploadNext]_vars

(***************************************************************************)
(* validateFile applied to one file after another.                         *)
(***************************************************************************)
Validate(f) ==
    /\ checkedFile' = f
    /\ validation' = validateFile(f)
    /\ UNCHANGED <<uploadStatus, isUploading, upload, timers, lastCall>>
    /\ UNCHANGED appVars
    /\ UNCHANGED previewVars

ValidateInit ==
    /\ checkedFile \in FileInputs
    /\ validation = validateFile(checkedFile)
    /\ UploaderInit
    /\ AppInit
    /\ PreviewMount(Undefined)
    /\ notes = <<>>
    /\ dropped = <<>>

ValidateNext == \E f \in FileInputs : Validate(f)

ValidateSpec == ValidateInit /\ [][ValidateNext]_vars

(***************************************************************************)
(* Properties of the tab preview.                                          *)
(***************************************************************************)
Entries == IF tabData.isArray THEN tabData.items ELSE <<>>

WellFormedTab ==
    /\ tabData.isArray
    /\ \A k \in 1..Len(tabData.items) : tabData.items[k].strings.isArray

FretsOf(k) == Entries[k].strings.items

PlayedPositions ==
    { p \in UNION { {k} \X (1..Len(FretsOf(k))) : k \in 1..Len(Entries) } :
        FretsOf(p[1])[p[2]] >= 0 }

PlayedFrets == { FretsOf(p[1])[p[2]] : p \in PlayedPositions }

(* C1: for every tab sequence whose entries carry a strings array,         *)
(* getTabStats returns totalChords = number of entries, totalNotes =       *)
(* number of fret values >= 0 over all entries, usedStrings = number of    *)
(* distinct string indices carrying a fret >= 0 in some entry, and         *)
(* fretRange = (minimum, maximum) of the fret values >= 0.                 *)
C1_StatsContract ==
    WellFormedTab =>
        /\ stats.status = "ok"
        /\ stats.totalChords = Len(Entries)
        /\ stats.totalNotes = Cardinality(PlayedPositions)
        /\ stats.usedStrings = Cardinality({ p[2] - 1 : p \in PlayedPositions })
        /\ PlayedFrets # {} =>
              /\ ~stats.fretRange.isNull
              /\ stats.fretRange.min \in PlayedFrets
              /\ stats.fretRange.max \in PlayedFrets
              /\ \A f \in PlayedFrets : stats.fretRange.min <= f /\ f <= stats.fretRange.max

C1_Witness ==
    /\ WellFormedTab
    /\ Len(Entries) = 2
    /\ Cardinality(PlayedPositions) >= 4
    /\ Cardinality(PlayedFrets) >= 3
    /\ \E k \in 1..Len(Entries) : \E i \in 1..Len(FretsOf(k)) : FretsOf(k)[i] < 0
    /\ stats.status = "ok"

(* C2: for an empty tab sequence the statistics are all zero with no fret  *)
(* range, the tablature display draws no chord, and no error is reached.   *)
C2_EmptyTab ==
    (tabData = Arr(<<>>)) =>
        /\ stats = [status |-> "ok", totalChords |-> 0, totalNotes |-> 0,
                    usedStrings |-> 0, fretRange |-> NullRange]
        /\ display.status = "svg"
        /\ display.chords = <<>>

C2_Witness ==
    /\ tabData = Arr(<<>>)
    /\ stats.status = "ok"
    /\ display.status = "svg"
    /\ zoom # ZoomInitial

(* C3: in every entry of the displayed tab sequence each string index 0..5 *)
(* carries at most one fret marker, a marker is drawn on string i exactly  *)
(* when strings[i] is not -1, none is drawn outside 0..5, and a chord      *)
(* counts at most 6 notes.                                                 *)
C3_OneMarkerPerString ==
    /\ WellFormedTab
    /\ display.status = "svg"
    /\ \A k \in 1..Len(Entries) :
          /\ Len(FretsOf(k)) = 6
          /\ \A i \in 0..5 :
                /\ Cardinality({ m \in display.chords[k].markers : m.stringIndex = i }) <= 1
                /\ (\E m \in display.chords[k].markers : m.stringIndex = i)
                      <=> FretsOf(k)[i + 1] # -1
          /\ \A m \in display.chords[k].markers : m.stringIndex \in 0..5
          /\ CountPlayed(FretsOf(k)) <= 6
    /\ stats.totalNotes <= 6 * stats.totalChords

C3_Witness ==
    /\ display.status = "svg"
    /\ \E k \in 1..Len(Entries) :
          /\ Cardinality(display.chords[k].markers) = 2
          /\ \E i \in 1..6 : FretsOf(k)[i] = 0
          /\ \E i \in 1..6 : FretsOf(k)[i] = -1

(* C4: every fret value the tab preview draws or counts as played lies in  *)
(* 0..24, and a reported fret range satisfies 0 <= min <= max <= 24.       *)
C4_FretRange ==
    /\ display.status = "svg"
    /\ \A k \in 1..Len(Entries) :
          \A m \in display.chords[k].markers :
              \E f \in MinFret..MaxFret :
                  /\ m.text = Digits(f)
                  /\ FretsOf(k)[m.stringIndex + 1] = f
    /\ \A f \in PlayedFrets : MinFret <= f /\ f <= MaxFret
    /\ stats.status = "ok"
    /\ ~stats.fretRange.isNull =>
          /\ MinFret <= stats.fretRange.min
          /\ stats.fretRange.min <= stats.fretRange.max
          /\ stats.fretRange.max <= MaxFret

C4_Witness ==
    /\ stats.status = "ok"
    /\ ~stats.fretRange.isNull
    /\ stats.fretRange.min = MinFret
    /\ stats.fretRange.max = MaxFret
    /\ \E k \in 1..Len(Entries) : \E m \in display.chords[k].markers : m.text = Digits(MaxFret)

(* C5: the displayed entries are in non-decreasing time order: chords are  *)
(* drawn left to right in sequence order, and a chord drawn further left   *)
(* never has a later time.                                                 *)
C5_TimeOrder ==
    /\ display.status = "svg"
    /\ Len(display.chords) = Len(Entries)
    /\ \A i, j \in 1..Len(Entries) :
          /\ i < j => display.chords[i].x < display.chords[j].x
          /\ display.chords[i].x < display.chords[j].x => Entries[i].time <= Entries[j].time

C5_Witness ==
    /\ display.status = "svg"
    /\ Len(Entries) = 2
    /\ Entries[1].time < Entries[2].time
    /\ display.chords[1].x < display.chords[2].x
    /\ notes[1].onset > notes[2].onset

(* C6: the rendering is lossless: two entries that differ in time or in    *)
(* the value of one of the 6 strings are drawn with a different time label *)
(* or different fret markers.                                              *)
C6_Lossless ==
    display.status = "svg" =>
        \A i, j \in 1..Len(Entries) :
            Entries[i] # Entries[j] =>
                \/ display.chords[i].time # display.chords[j].time
                \/ display.chords[i].markers # display.chords[j].markers

(* C7: the Standard tuning table has exactly 6 strings with strictly       *)
(* decreasing open pitch from index 0 (64) to index 5 (40), index 1 being  *)
(* 59, and the display draws string index i on the i-th line from the top. *)
C7_TuningOrder ==
    /\ Len(stringTuning) = 6
    /\ Len(stringNames) = 6
    /\ \A i, j \in 1..Len(stringTuning) : i < j => stringTuning[i] > stringTuning[j]
    /\ stringTuning[1] = 64 /\ stringTuning[2] = 59 /\ stringTuning[6] = 40
    /\ display.status = "svg" =>
          /\ Len(display.lines) = 6
          /\ \A i, j \in 1..Len(display.lines) :
                i < j => display.lines[i].y < display.lines[j].y
          /\ \A k \in 1..Len(display.chords) : \A m, n \in display.chords[k].markers :
                /\ m.cy = display.lines[m.stringIndex + 1].y
                /\ m.stringIndex < n.stringIndex => m.cy < n.cy

C7_Witness ==
    /\ display.status = "svg"
    /\ zoom = ZoomMin
    /\ \E k \in 1..Len(display.chords) : Cardinality(display.chords[k].markers) = 2

(* C8: the tab sequence handed to the preview is never mutated: zoom-in,   *)
(* zoom-out and reset (each with its re-render, which recomputes the       *)
(* statistics and redraws) leave every entry unchanged, and the statistics *)
(* are the same whatever the zoom and scroll.                              *)
C8_TabNotMutated ==
    [][tabData' = tabData /\ stats' = stats /\ stats = getTabStats(tabData)]_vars

C8_Witness ==
    /\ zoom = ZoomMax
    /\ stats.status = "ok"
    /\ stats.totalNotes >= 3
    /\ display.status = "svg"
    /\ display.totalWidth = Len(Entries) * 120 + 100

(***************************************************************************)
(* Properties of the processing workflow.                                  *)
(***************************************************************************)
Files == { processedFiles[k] : k \in 1..Len(processedFiles) }

(* C9: the order upload, Process to MIDI, Generate Tab, preview/export is  *)
(* enforced for every file: a generate-tab request is started only after   *)
(* the MIDI processing succeeded, MIDI download and MIDI preview need      *)
(* midiProcessed, PDF download and tab preview need tabGenerated, and      *)
(* tabGenerated implies midiProcessed.                                     *)
C9_WorkflowOrder ==
    /\ \A file \in Files :
          /\ file.tabGenerated => file.midiProcessed
          /\ pending[file.id].tab > 0 => file.midiProcessed
          /\ processing[file.id] = "tab" => file.midiProcessed
          /\ lastDownload = <<"midi", file.id>> => file.midiProcessed
          /\ lastDownload = <<"pdf", file.id>> => file.tabGenerated
          /\ activeTab[file.id] = "midi" => file.midiProcessed
          /\ activeTab[file.id] = "tab" => file.tabGenerated
          /\ file.midiProcessed <=> file.midiFile # NoMidiFile
          /\ file.tabGenerated <=> file.tabData.isArray
    /\ \A f \in FileIds \ IdsInList :
          /\ pending[f] = [midi |-> 0, tab |-> 0]
          /\ processing[f] = "null"
          /\ activeTab[f] = "none"
          /\ lastDownload[2] # f

C9_Witness ==
    \E file \in Files :
        /\ file.tabGenerated
        /\ file.midiProcessed
        /\ ShowsTabPreview(file)
        /\ lastDownload = <<"pdf", file.id>>
        /\ \E other \in Files : ~other.midiProcessed /\ pending[other.id].midi = 1

(* C10: tab generation is invoked once per job: at most one generate-tab   *)
(* request per file is in flight, none is started once tabGenerated is     *)
(* true, and tabData never changes after tabGenerated became true.         *)
C10_OncePerJob ==
    /\ [](\A f \in FileIds : pending[f].tab <= 1)
    /\ [][\A k \in 1..Len(processedFiles) :
            processedFiles[k].tabGenerated =>
                /\ pending'[processedFiles[k].id].tab <= pending[processedFiles[k].id].tab
                /\ processedFiles'[k].tabGenerated
                /\ processedFiles'[k].tabData = processedFiles[k].tabData]_vars

C10_Witness ==
    \E file, other \in Files :
        /\ file.tabGenerated
        /\ file.tabData.items # <<>>
        /\ pending[file.id].tab = 0
        /\ processing[file.id] = "null"
        /\ other.id # file.id
        /\ pending[other.id].tab = 1

(***************************************************************************)
(* Properties of validateFile.                                             *)
(***************************************************************************)
SupportedMime == {"audio/mpeg", "audio/wav", "audio/flac", "audio/x-flac"}

LowerName == [i \in 1..Len(checkedFile.name) |-> ToLower(checkedFile.name[i])]

HasAudioExtension ==
    \E suffix \in { <<".", "m", "p", "3">>, <<".", "w", "a", "v">>, <<".", "f", "l", "a", "c">> } :
        /\ Len(LowerName) >= Len(suffix)
        /\ SubSeq(LowerName, Len(LowerName) - Len(suffix) + 1, Len(LowerName)) = suffix

(* C11: validateFile rejects a file with the 'Unsupported file type' error *)
(* exactly when its MIME type is none of audio/mpeg, audio/wav, audio/flac,*)
(* audio/x-flac and its name does not end in .mp3, .wav or .flac (case     *)
(* ignored); the type is decided before the size.                          *)
C11_TypeCheck ==
    /\ (validation.error = UnsupportedType)
          <=> (checkedFile.type \notin SupportedMime /\ ~HasAudioExtension)
    /\ validation.error = UnsupportedType => ~validation.valid
    /\ validation.valid => (checkedFile.type \in SupportedMime \/ HasAudioExtension)

C11_Witness ==
    /\ checkedFile.type \notin SupportedMime
    /\ ~HasAudioExtension
    /\ checkedFile.size > maxSize
    /\ validation = [valid |-> FALSE, error |-> UnsupportedType]

(* C12: the size limit is 50MB: a file of a supported type is rejected     *)
(* with the 'File too large' error when its size exceeds 50 * 1024 * 1024  *)
(* bytes and accepted when its size is at most that, the limit included.   *)
C12_SizeLimit ==
    (checkedFile.type \in SupportedMime \/ HasAudioExtension) =>
        /\ checkedFile.size > 52428800 => validation = [valid |-> FALSE, error |-> TooLarge]
        /\ checkedFile.size <= 52428800 => validation = [valid |-> TRUE, error |-> NoError]

C12_Witness ==
    /\ checkedFile.type = "audio/ogg"
    /\ checkedFile.name = <<"A", ".", "M", "P", "3">>
    /\ checkedFile.size = 52428800
    /\ validation.valid

(***************************************************************************)
(* Properties of onDrop.                                                   *)
(***************************************************************************)
Accepted(f) == validateFile(f).valid

RejectedListed(acceptedFiles) ==
    /\ Len(uploadStatus) = Len(acceptedFiles)
    /\ \A i \in 1..Len(acceptedFiles) :
          /\ uploadStatus[i].name = acceptedFiles[i].name
          /\ ~Accepted(acceptedFiles[i]) =>
                /\ uploadStatus[i].status = "error"
                /\ uploadStatus[i].error = validateFile(acceptedFiles[i]).error

OnlyValidSent(acceptedFiles) ==
    IF SelectSeq(acceptedFiles, Accepted) = <<>>
    THEN upload = NoUpload /\ ~isUploading
    ELSE /\ upload.active
         /\ isUploading
         /\ upload.files = SelectSeq(acceptedFiles, Accepted)

(* C13: only valid files are uploaded: after onDrop the upload request     *)
(* holds exactly the files validateFile accepted, every rejected file is   *)
(* listed with status 'error' and its validation message and is in no      *)
(* request, and when no file is valid no request is issued and isUploading *)
(* is false again.                                                         *)
C13_OnlyValidUploaded ==
    /\ lastCall.handler = "onDrop" =>
          /\ RejectedListed(lastCall.acceptedFiles)
          /\ OnlyValidSent(lastCall.acceptedFiles)
    /\ \A i \in 1..Len(upload.files) : Accepted(upload.files[i])

C13_Witness ==
    /\ lastCall.handler = "onDrop"
    /\ upload.active
    /\ Len(upload.files) = 1
    /\ Len(uploadStatus) = 2
    /\ \E i \in 1..2 : uploadStatus[i].status = "error" /\ uploadStatus[i].error = TooLarge

(***************************************************************************)
(* Properties of concurrent processing requests.                           *)
(***************************************************************************)
RequestEvent(fileId) == pending'[fileId] # pending[fileId]

OthersUntouched(a) ==
    \A b \in FileIds \ {a} :
        /\ processing'[b] = processing[b]
        /\ pending'[b] = pending[b]
        /\ b \in IdsInList => FileOf(b)' = FileOf(b)

ResultsKept ==
    \A b \in IdsInList :
        /\ FileOf(b).midiProcessed =>
              FileOf(b)'.midiProcessed /\ FileOf(b)'.midiFile = FileOf(b).midiFile
        /\ FileOf(b).tabGenerated =>
              FileOf(b)'.tabGenerated /\ FileOf(b)'.tabData = FileOf(b).tabData

SuccessRecorded ==
    \A b \in FileIds :
        RequestEvent(b) =>
            /\ \A m \in MidiFiles :
                  ProcessToMidiSettled(b, "processed", m) =>
                      FileOf(b)'.midiProcessed /\ FileOf(b)'.midiFile = m
            /\ \A t \in TabResponses :
                  GenerateTabSettled(b, "tab_generated", t) =>
                      FileOf(b)'.tabGenerated /\ FileOf(b)'.tabData = t

(* C14: files are processed concurrently without interference: a step that *)
(* starts or completes a request for file A leaves the processing flag,    *)
(* midiProcessed, tabGenerated, midiFile and tabData of every other file B *)
(* unchanged; a successful response for B is recorded whatever requests    *)
(* are in flight, and no later step of any file takes a recorded result    *)
(* away.                                                                   *)
C14_NoInterference ==
    [][/\ \A a \in FileIds : RequestEvent(a) => OthersUntouched(a)
       /\ ResultsKept
       /\ SuccessRecorded]_vars

C14_Witness ==
    \E a, b \in IdsInList :
        /\ a # b
        /\ processing[a] = "tab"
        /\ processing[b] = "midi"
        /\ pending[a].tab = 1
        /\ pending[b].midi = 1

InFlight(fileId) == pending[fileId].midi + pending[fileId].tab > 0

ButtonsEnabled(fileId) ==
    /\ fileId \in IdsInList
    /\ processing[fileId] = "null"
    /\ ~FileOf(fileId).midiProcessed => CanProcessToMidi(FileOf(fileId))
    /\ (FileOf(fileId).midiProcessed /\ ~FileOf(fileId).tabGenerated) => CanGenerateTab(FileOf(fileId))

(* C15: the processing indicator of a file is 'midi' or 'tab' while its    *)
(* request is in flight and is null when none is; with a server that       *)
(* eventually answers, every started request leads to a state where the    *)
(* flag is null and the file's action button is enabled, whether the       *)
(* request succeeded, answered another status or failed.                   *)
C15_IndicatorCleared ==
    /\ [](\A f \in FileIds :
            /\ pending[f].midi > 0 => processing[f] = "midi"
            /\ pending[f].tab > 0 => processing[f] = "tab"
            /\ ~InFlight(f) => processing[f] = "null")
    /\ \A f \in FileIds : InFlight(f) ~> (~InFlight(f) /\ ButtonsEnabled(f))

C15_Witness ==
    \E f \in IdsInList :
        /\ alerted = TabFailedMessage
        /\ processing[f] = "null"
        /\ FileOf(f).midiProcessed
        /\ ~FileOf(f).tabGenerated
        /\ CanGenerateTab(FileOf(f))

FailedSettle(fileId) ==
    \E o \in {"failed", "throw"} :
        \/ ProcessToMidiSettled(fileId, o, NoMidiFile)
        \/ GenerateTabSettled(fileId, o, Undefined)

(* C16: a failed processing request (one that throws or answers a status   *)
(* other than 'processed' / 'tab_generated') is reported, leaves the       *)
(* file's midiProcessed, tabGenerated, midiFile and tabData as they were,  *)
(* is not retried (the one request of the click is over and no other is in *)
(* flight), and the user can issue the request again.                      *)
C16_FailureReported ==
    [][\A f \in FileIds :
          FailedSettle(f) =>
              /\ alerted' # NoAlert
              /\ processedFiles' = processedFiles
              /\ ~InFlight(f)'
              /\ (CanProcessToMidi(FileOf(f)) \/ CanGenerateTab(FileOf(f)))']_vars

(***************************************************************************)
(* Properties of the zoom controls.                                        *)
(***************************************************************************)
(* C17: the zoom starts at 1 and stays within 0.5 <= zoom <= 2 (in tenths: *)
(* 5..20) under every sequence of zoom-in, zoom-out and reset, and a reset *)
(* restores zoom = 1 and scroll = 0 from any state.                        *)
C17_ZoomBounded ==
    /\ zoom = 10
    /\ [](5 <= zoom /\ zoom <= 20)
    /\ [][handleReset => (zoom' = 10 /\ scroll' = 0)]_vars

C17_Witness ==
    /\ zoom = 19
    /\ scroll = 0
    /\ Mounted

(***************************************************************************)
(* Properties of the tablature core.  StandardTuning is the tuning table   *)
(* of the design document, written out; the chords are those of the Chord  *)
(* Grouper.                                                                *)
(***************************************************************************)
StandardTuning == <<64, 59, 55, 50, 45, 40>>

ChordPitches(k) ==
    { GroupChords(notes)[k].notes[i].pitch : i \in 1..Len(GroupChords(notes)[k].notes) }

PlayedStrings(k) == { s \in 1..Len(FretsOf(k)) : FretsOf(k)[s] >= 0 }

PitchAt(k, s) == StandardTuning[s] + FretsOf(k)[s]

(* C18: pitch-fidelity: in every chord of the tablature each played string *)
(* sounds, under Standard tuning (64, 59, 55, 50, 45, 40), the pitch of a  *)
(* note of that chord, different strings sound different notes, and the    *)
(* played strings together with the dropped notes account for every note   *)
(* of the chord.                                                           *)
C18_PitchFidelity ==
    /\ Len(Entries) = Len(GroupChords(notes))
    /\ \A k \in 1..Len(Entries) :
          /\ \A s \in PlayedStrings(k) : PitchAt(k, s) \in ChordPitches(k)
          /\ \A s, t \in PlayedStrings(k) : s # t => PitchAt(k, s) # PitchAt(k, t)
          /\ Cardinality(PlayedStrings(k)) + dropped[k] = Len(GroupChords(notes)[k].notes)

C18_Witness ==
    \E k \in 1..Len(Entries) :
        /\ Cardinality(PlayedStrings(k)) = 2
        /\ dropped[k] = 0
        /\ \E s \in PlayedStrings(k) : FretsOf(k)[s] > 0

Reachable(pitch) ==
    \E s \in 1..6 : pitch - StandardTuning[s] >= 0 /\ pitch - StandardTuning[s] <= 24

JointlyPlayable(pitches) ==
    \E a \in [pitches -> 1..6] :
        /\ \A p, q \in pitches : p # q => a[p] # a[q]
        /\ \A p \in pitches : p - StandardTuning[a[p]] >= 0 /\ p - StandardTuning[a[p]] <= 24

ReachablePitches(k) == { p \in ChordPitches(k) : Reachable(p) }

(* C19: drop-and-continue: a note with no (string, fret) in fret range     *)
(* 0..24 under the tuning is dropped from its chord and counted, one per   *)
(* dropped note, in the chord's drop count; the other notes of the chord   *)
(* and every later chord are still assigned (all of them when they fit on  *)
(* different strings), and the result is a tab sequence, never an error.   *)
C19_DropAndContinue ==
    /\ tabData.isArray
    /\ stats.status # "error"
    /\ Len(Entries) = Len(GroupChords(notes))
    /\ Len(dropped) = Len(GroupChords(notes))
    /\ \A k \in 1..Len(Entries) :
          /\ { PitchAt(k, s) : s \in PlayedStrings(k) } \subseteq ReachablePitches(k)
          /\ dropped[k] = Cardinality(ChordPitches(k)) - Cardinality(PlayedStrings(k))
          /\ dropped[k] >= Cardinality(ChordPitches(k) \ ReachablePitches(k))
          /\ ReachablePitches(k) # {} => PlayedStrings(k) # {}
          /\ JointlyPlayable(ReachablePitches(k)) =>
                /\ { PitchAt(k, s) : s \in PlayedStrings(k) } = ReachablePitches(k)
                /\ dropped[k] = Cardinality(ChordPitches(k) \ ReachablePitches(k))

C19_Witness ==
    \E k \in 1..Len(Entries) :
        /\ 20 \in ChordPitches(k)
        /\ dropped[k] = 1
        /\ { PitchAt(k, s) : s \in PlayedStrings(k) } = {88}
        /\ stats.status = "ok"

BestCandidates(chordNotes, previousCenter) ==
    LET cands == { StringsOf(Retained(chordNotes), a) : a \in Assignments(Retained(chordNotes)) }
    IN  { s \in cands : \A t \in cands : t = s \/ Better(s, t, previousCenter) }

CheapestCandidates(chordNotes, previousCenter) ==
    LET cands == { StringsOf(Retained(chordNotes), a) : a \in Assignments(Retained(chordNotes)) }
    IN  { s \in cands : \A t \in cands : cost(s, previousCenter) <= cost(t, previousCenter) }

RECURSIVE UniqueChoice(_, _)
UniqueChoice(chords, previousCenter) ==
    \/ chords = <<>>
    \/ /\ Cardinality(BestCandidates(Head(chords).notes, previousCenter)) = 1
       /\ UniqueChoice(Tail(chords), SolveChord(Head(chords).notes, previousCenter).center)

RECURSIVE TieBroken(_, _)
TieBroken(chords, previousCenter) ==
    /\ chords # <<>>
    /\ \/ Cardinality(CheapestCandidates(Head(chords).notes, previousCenter)) > 1
       \/ TieBroken(Tail(chords), SolveChord(Head(chords).notes, previousCenter).center)

C21_OneBatchInFlight ==
    /\ [](/\ isUploading <=> upload.active
          /\ lastCall.handler \in {"onDropResponse", "onDropCatch"} => ~isUploading)
    /\ [][\A acceptedFiles \in DropBatches :
             (isUploading /\ onDrop(acceptedFiles)) =>
                 UNCHANGED <<uploadStatus, isUploading, upload, timers, processedFiles>>]_vars

C21_Witness ==
    /\ isUploading
    /\ upload.active
    /\ upload.loaded > 0
    /\ timers = 1
    /\ Len(processedFiles) = 1

EntriesShown ==
    /\ Len(uploadStatus) = Len(upload.initialStatus)
    /\ \A i \in 1..Len(uploadStatus) : uploadStatus[i].name = upload.initialStatus[i].name

(* C22: the status entries of a batch stay displayed while the batch is in *)
(* flight and after it failed: no clearing timer of an earlier upload      *)
(* removes them, so a batch that fails ends with each of its files shown   *)
(* with status 'error'.                                                    *)
C22_EntriesStay ==
    [][/\ upload.active' => EntriesShown'
       /\ onDropCatch =>
             /\ Len(uploadStatus') = Len(upload.initialStatus)
             /\ \A i \in 1..Len(uploadStatus') : uploadStatus'[i].status = "error"]_vars

IsUploaded(result) == result.status = "uploaded"

Appended(results) ==
    /\ Len(processedFiles') = Len(processedFiles) + Len(SelectSeq(results, IsUploaded))
    /\ SubSeq(processedFiles', 1, Len(processedFiles)) = processedFiles
    /\ \A k \in 1..Len(SelectSeq(results, IsUploaded)) :
          /\ processedFiles'[Len(processedFiles) + k].id = SelectSeq(results, IsUploaded)[k].file_id
          /\ processedFiles'[Len(processedFiles) + k].filename = SelectSeq(results, IsUploaded)[k].filename

SentBefore(initialStatus, i) ==
    Cardinality({ j \in 1..i : initialStatus[j].status = "uploading" })

(* C27: after a successful upload response each status entry reflects its  *)
(* own file's outcome: an entry rejected by client-side validation keeps   *)
(* status 'error' and is never 'success', and the entry of a file that was *)
(* sent shows 'success' with progress 100 exactly when the server result   *)
(* for that file has status 'uploaded', and 'error' otherwise.             *)
C27_OwnOutcome ==
    [][upload.active =>
          \A results \in UploadResults :
              onDropResponse(results) =>
                  /\ Len(uploadStatus') = Len(upload.initialStatus)
                  /\ \A i \in 1..Len(upload.initialStatus) :
                        IF upload.initialStatus[i].status = "error"
                        THEN uploadStatus'[i].status = "error"
                        ELSE IF results[SentBefore(upload.initialStatus, i)].status = "uploaded"
                        THEN uploadStatus'[i].status = "success" /\ uploadStatus'[i].progress = 100
                        ELSE uploadStatus'[i].status = "error"]_vars

(***************************************************************************)
(* Properties of the processed-files list.                                 *)
(***************************************************************************)
OnlyListChanges ==
    /\ pending' = pending
    /\ processing' = processing
    /\ darkMode' = darkMode
    /\ activeTab' = activeTab
    /\ lastDownload' = lastDownload

(* C24: handleFilesUploaded appends exactly the results of status          *)
(* 'uploaded', in response order, each with status 'uploaded',             *)
(* midiProcessed = false and tabGenerated = false; other results are not   *)
(* added, and the files already listed keep their position and fields.     *)
C24_AppendUploaded ==
    [][OnlyListChanges =>
          \A uploadResults \in UploadResponses :
              handleFilesUploaded(uploadResults) =>
                  /\ Len(processedFiles') =
                        Len(processedFiles) + Len(SelectSeq(uploadResults, IsUploaded))
                  /\ \A k \in 1..Len(processedFiles) : processedFiles'[k] = processedFiles[k]
                  /\ \A k \in 1..Len(SelectSeq(uploadResults, IsUploaded)) :
                        /\ processedFiles'[Len(processedFiles) + k].id =
                              SelectSeq(uploadResults, IsUploaded)[k].file_id
                        /\ processedFiles'[Len(processedFiles) + k].filename =
                              SelectSeq(uploadResults, IsUploaded)[k].filename
                        /\ processedFiles'[Len(processedFiles) + k].status = "uploaded"
                        /\ ~processedFiles'[Len(processedFiles) + k].midiProcessed
                        /\ ~processedFiles'[Len(processedFiles) + k].tabGenerated]_vars

C24_Witness ==
    /\ Len(processedFiles) = 2
    /\ processedFiles[1].midiProcessed
    /\ processedFiles[2].status = "uploaded"
    /\ ~processedFiles[2].midiProcessed
    /\ ~processedFiles[2].tabGenerated
    /\ processing[processedFiles[2].id] = "null"
    /\ alerted = NoAlert
    /\ pending[processedFiles[1].id].tab = 1

(* C25: file progress is monotonic: no step removes or moves a file of the *)
(* processed list, and midiProcessed and tabGenerated never go from true   *)
(* back to false.                                                          *)
C25_Monotonic ==
    [][/\ Len(processedFiles') >= Len(processedFiles)
       /\ \A k \in 1..Len(processedFiles) :
             /\ processedFiles'[k].id = processedFiles[k].id
             /\ processedFiles[k].midiProcessed => processedFiles'[k].midiProcessed
             /\ processedFiles[k].tabGenerated => processedFiles'[k].tabGenerated]_vars

C25_Witness ==
    /\ Len(processedFiles) = 2
    /\ processedFiles[1].midiProcessed
    /\ processedFiles[1].tabGenerated
    /\ ~processedFiles[2].midiProcessed
    /\ darkMode
    /\ activeTab[processedFiles[1].id] = "tab"
    /\ alerted = MidiFailedMessage

(***************************************************************************)
(* Properties of the statistics panel.                                     *)
(***************************************************************************)
SixStrings == \A k \in 1..Len(Entries) : Len(FretsOf(k)) <= 6

(* C26: the statistics of a tab sequence (entries of at most six strings)  *)
(* are consistent: usedStrings <= 6, usedStrings <= totalNotes <=          *)
(* 6 * totalChords, a fret range is reported exactly when totalNotes > 0,  *)
(* and a reported range has 0 <= min <= max.                               *)
C26_StatsConsistent ==
    (stats.status = "ok" /\ SixStrings) =>
        /\ stats.usedStrings <= 6
        /\ stats.usedStrings <= stats.totalNotes
        /\ stats.totalNotes <= 6 * stats.totalChords
        /\ ~stats.fretRange.isNull <=> stats.totalNotes > 0
        /\ ~stats.fretRange.isNull =>
              /\ 0 <= stats.fretRange.min
              /\ stats.fretRange.min <= stats.fretRange.max

C26_Witness ==
    /\ stats.status = "ok"
    /\ stats.totalChords = 2
    /\ stats.usedStrings < stats.totalNotes
    /\ stats.totalNotes < 6 * stats.totalChords
    /\ ~stats.fretRange.isNull
    /\ stats.fretRange.min < stats.fretRange.max

====
